---- MODULE Spec2Model ----
(***************************************************************************)
(* State-machine model of the ClickHouse benchmark harness:                *)
(*   benchmarks/benchmark_runner.py     (BenchmarkRunner, registry,        *)
(*                                       format_results)                   *)
(*   benchmarks/clickhouse_benchmark.py (ClickHouseBenchmark: connect,     *)
(*                                       two-phase batch, log lookups)     *)
(* The database server is the environment: every statement the harness     *)
(* issues may succeed or raise, and every query-log lookup may return a    *)
(* finished record, an errored record, or nothing.                         *)
(***************************************************************************)
EXTENDS Integers, Sequences, FiniteSets, TLC

(***************************************************************************)
(* Bounds of the model.                                                    *)
(***************************************************************************)
\* largest total of run_count the registry holds: the runs of a batch
MaxRuns == 3
\* things that go wrong in a behaviour: a Phase-1 statement (setup, SET,
\* benchmark query) that raises, or a submitted query whose finished record
\* is not found by the first lookup (it is found later, or an errored record
\* is, or none ever is; lookups may raise)
MaxFaults == 1
\* longest string _parse_memory_limit is applied to on its own
MaxLen == 4
\* MaxInvocations: how many times run_all_benchmarks is run on one engine.
MaxInvocations == 2

(***************************************************************************)
(* Program constants and Python values.                                    *)
(***************************************************************************)
\* max_attempts of _get_query_stats
max_attempts == 15
\* Python None for a numeric value (a NULL column of system.query_log)
Null == -1
\* query_id None of a failed run
NoQueryId == 0
\* start_time before its first assignment in _run_benchmark_queries
Unbound == -1
\* the server's default max_memory_usage (SET max_memory_usage = 0)
DefaultMemory == 0

Names == {"q1", "q2"}
Queries == {"SELECT 1"}
RunCounts == 1..MaxRuns

\* A value of the memory-limits map: absent (dict.get gives None) or a number of bytes.
NoLimit == [kind |-> "none"]
Limits == {NoLimit, [kind |-> "int", v |-> 100]}

\* A string value of the memory-limits map.
StrLimit(s) == [kind |-> "str", s |-> s]

\* The characters and the strings _parse_memory_limit is applied to.
Alphabet ==
    {"0", "1", "2", "4", "5", "9", ".", " ", "K", "k", "M", "G", "T", "B", "b",
     "a", "c", "sup2"}
LimitStrings == UNION {[1..n -> Alphabet] : n \in 0..MaxLen}

\* The wider choice of the data specification: strings that are a number of
\* bytes ("1KB"), that are not ("abc"), and that str.isdigit() takes for one.
DataLimits ==
    Limits \cup {StrLimit(<<"1", "K", "B">>), StrLimit(<<"a", "b", "c">>),
                 StrLimit(<<"sup2">>)}

\* Row counts a benchmark query returns in its immediate result.
RowCounts == {3}
\* The wider choice of the data specification.
DataRowCounts == {0, 3, 7}

\* Error texts str(e) of a failed statement, by what the handler's regular
\* expressions find in them ("" where a pattern does not match).
ErrorMsgs ==
    { [mle |-> TRUE,  would_use |-> "9.31 GiB", current_rss |-> "1.00 GiB",
       maximum |-> "9.00 GiB", code |-> ""],
      [mle |-> FALSE, would_use |-> "", current_rss |-> "", maximum |-> "",
       code |-> "60"] }
\* The wider choice of the data specification: also a memory-limit error
\* whose text carries none of the three sizes.
DataErrorMsgs ==
    ErrorMsgs \cup
    { [mle |-> TRUE,  would_use |-> "", current_rss |-> "", maximum |-> "",
       code |-> ""] }

\* Rows of system.query_log with type = 'QueryFinish' (columns of stats_query).
LogRow(m, rr, rb, wr, wb, res, resb) ==
    [memory_usage |-> m, read_rows |-> rr, read_bytes |-> rb, written_rows |-> wr,
     written_bytes |-> wb, result_rows |-> res, result_bytes |-> resb]

FinishedRows ==
    { LogRow(100, 10, 1000, Null, Null, Null, Null) }

\* The wider choice of the data specification: every column NULL or not,
\* result_rows also 0.
DataFinishedRows ==
    { LogRow(m, rr, rb, wr, wb, res, resb) :
        m \in {Null, 100}, rr \in {Null, 10}, rb \in {Null, 1000},
        wr \in {Null, 5}, wb \in {Null, 50}, res \in {Null, 0, 4},
        resb \in {Null, 24} }

\* Rows of system.query_log with exception != '' (columns of exception_query).
ErroredRows ==
    { [exception |-> "Code: 394. Query was cancelled", exception_code |-> 394,
       query_duration_ms |-> 2000, peak_memory_usage |-> 100] }

VARIABLES
    client,                \* self.client is not None
    connected,             \* self.connected
    session_memory,        \* the connection's max_memory_usage session setting
    benchmarks,            \* self.benchmarks: the registry, with each entry's results
    invocations,           \* the skip-lists of the run_all_benchmarks calls that ran a batch
    pc,                    \* position of the harness
    caller,                \* which operation entered _run_benchmark_queries
    to_run,                \* benchmarks argument of _run_benchmark_queries
    memory_limits,         \* memory_limits argument (name -> limit)
    skip_benchmarks,       \* skip_benchmarks argument of run_all_benchmarks
    setup_issued,          \* setup statements issued by this batch (0..4)
    bi,                    \* index into to_run of the benchmark being run
    run,                   \* run index within the benchmark
    start_time,            \* local start_time
    clock,                 \* time.time()
    next_query_id,         \* next identifier the server assigns
    query_execution_data,  \* Phase-1 records
    submissions,           \* the benchmark queries submitted by this batch, in order
    ri,                    \* index into query_execution_data in Phase 2
    attempt,               \* loop variable of _get_query_stats
    results,               \* results list of _run_benchmark_queries
    origin,                \* for each result: how Phase 2 obtained it
    looked_up,             \* Phase-1 records for which a query-log lookup was issued
    last_lookup,           \* how the latest query-log lookup of this batch went
    lookups_issued,        \* the lookups of the latest attempt, with their answers
    waited,                \* time.sleep of the latest attempt, in units of 0.5 s (0: none)
    settle_waits,          \* times this batch waited the settle delay
    faults,                \* things that went wrong so far (see MaxFaults)
    ret                    \* outcome of the last operation

vars == <<client, connected, session_memory, benchmarks, invocations, pc, caller, to_run,
          memory_limits, skip_benchmarks, setup_issued, bi, run, start_time, clock,
          next_query_id, query_execution_data, submissions, ri, attempt, results,
          origin, looked_up, last_lookup, lookups_issued, waited, settle_waits,
          faults, ret>>

(***************************************************************************)
(* Python values.                                                          *)
(***************************************************************************)
\* x or y, for numbers: None and 0 are falsy.
PyOr(x, y) == IF x = Null \/ x = 0 THEN y ELSE x

\* bool(memory_limit): None, 0 and the empty string are falsy.
Truthy(limit) ==
    \/ limit.kind = "int" /\ limit.v # 0
    \/ limit.kind = "str" /\ limit.s # <<>>

\* The empty dict.
EmptyDict == [k \in {} |-> ""]

\* d.get(k, default)
DictGet(d, k, default) == IF k \in DOMAIN d THEN d[k] ELSE default

(***************************************************************************)
(* Strings and byte counts.  A string is a sequence of characters.  A byte *)
(* count is a numeral in base 1024, most significant digit first, so that  *)
(* 9GB = 9 * 1024^3 is <<9, 0, 0, 0>>.                                     *)
(***************************************************************************)
\* The decimal digits: accepted by str.isdigit(), int(), float() and \d.
DecimalChars == {"0", "1", "2", "3", "4", "5", "6", "7", "8", "9"}

DigitValue ==
    [c \in DecimalChars |->
        CASE c = "0" -> 0 [] c = "1" -> 1 [] c = "2" -> 2 [] c = "3" -> 3
          [] c = "4" -> 4 [] c = "5" -> 5 [] c = "6" -> 6 [] c = "7" -> 7
          [] c = "8" -> 8 [] c = "9" -> 9]

\* Digits that are not decimal, like the superscript two: str.isdigit() is
\* true for them, int() raises ValueError on them, and \d does not match them.
SuperscriptChars == {"sup2"}

\* [KMGTkmgt] and [Bb] of the pattern, and \s.
UnitChars == {"K", "M", "G", "T", "k", "m", "g", "t"}
ByteChars == {"B", "b"}
Whitespace == {" "}

\* The exponent of 1024 for unit.upper().
UnitPower(u) ==
    CASE u \in {"K", "k"} -> 1
      [] u \in {"M", "m"} -> 2
      [] u \in {"G", "g"} -> 3
      [] u \in {"T", "t"} -> 4

\* value *= 1024
Base == 1024

RECURSIVE ToBytes(_)
ToBytes(n) == IF n < Base THEN <<n>> ELSE Append(ToBytes(n \div Base), n % Base)

RECURSIVE Normalize(_)
Normalize(l) == IF Len(l) > 1 /\ Head(l) = 0 THEN Normalize(Tail(l)) ELSE l

\* The integer a byte count denotes.
RECURSIVE BytesValue(_)
BytesValue(l) ==
    IF l = <<>> THEN 0 ELSE BytesValue(SubSeq(l, 1, Len(l) - 1)) * Base + l[Len(l)]

\* What a call gives: a returned byte count, or a raised exception.
Returned(bytes) == [raised |-> FALSE, exception |-> "", value |-> bytes]
Raised(exception) == [raised |-> TRUE, exception |-> exception, value |-> <<>>]

Take(s, n) == SubSeq(s, 1, n)
Drop(s, n) == SubSeq(s, n + 1, Len(s))

\* The length of the longest prefix of s made of characters of set.
RECURSIVE PrefixLen(_, _)
PrefixLen(s, set) ==
    IF s # <<>> /\ Head(s) \in set THEN 1 + PrefixLen(Tail(s), set) ELSE 0

RECURSIVE SuffixLen(_, _)
SuffixLen(s, set) ==
    IF s # <<>> /\ s[Len(s)] \in set THEN 1 + SuffixLen(Take(s, Len(s) - 1), set) ELSE 0

\* str.strip()
Strip(s) ==
    LET l == Drop(s, PrefixLen(s, Whitespace))
    IN  Take(l, Len(l) - SuffixLen(l, Whitespace))

\* str.isdigit()
IsDigit(s) ==
    /\ s # <<>>
    /\ \A i \in DOMAIN s : s[i] \in DecimalChars \cup SuperscriptChars

\* The number a string of decimal digits denotes.
RECURSIVE DecimalValue(_)
DecimalValue(s) ==
    IF s = <<>> THEN 0
    ELSE 10 * DecimalValue(Take(s, Len(s) - 1)) + DigitValue[s[Len(s)]]

RECURSIVE Power(_, _)
Power(b, e) == IF e = 0 THEN 1 ELSE b * Power(b, e - 1)

\* int(str): surrounding whitespace is ignored, decimal digits only.
PyInt(s) ==
    LET t == Strip(s)
    IN  IF t # <<>> /\ \A i \in DOMAIN t : t[i] \in DecimalChars
        THEN Returned(ToBytes(DecimalValue(t)))
        ELSE Raised("ValueError")

\* re.match(r'^(\d+(\.\d+)?)\s*([KMGTkmgt]?[Bb]?)$', s): the character classes
\* of neighbouring parts are disjoint, so the match is found left to right.
Match(s) ==
    LET n1     == PrefixLen(s, DecimalChars)
        r1     == Drop(s, n1)
        n2     == IF r1 # <<>> /\ Head(r1) = "."
                  THEN PrefixLen(Tail(r1), DecimalChars) ELSE 0
        r2     == IF n2 > 0 THEN Drop(r1, 1 + n2) ELSE r1
        r3     == Drop(r2, PrefixLen(r2, Whitespace))
        u      == IF r3 # <<>> /\ Head(r3) \in UnitChars THEN 1 ELSE 0
        r4     == Drop(r3, u)
        b      == IF r4 # <<>> /\ Head(r4) \in ByteChars THEN 1 ELSE 0
    IN  [matched  |-> n1 > 0 /\ Drop(r4, b) = <<>>,
         whole    |-> Take(s, n1),
         fraction |-> IF n2 > 0 THEN SubSeq(r1, 2, 1 + n2) ELSE <<>>,
         power    |-> IF u = 1 THEN UnitPower(Head(r3)) ELSE 0]

\* The k base-1024 digits of int(num / den * 1024^k), for num < den.
RECURSIVE Scaled(_, _, _)
Scaled(num, den, k) ==
    IF k = 0 THEN <<>>
    ELSE <<(num * Base) \div den>> \o Scaled((num * Base) % den, den, k - 1)

\* _parse_memory_limit(limit_str)
ParseMemoryLimit(limit_str) ==
    LET s == Strip(limit_str)
        m == Match(s)
    IN  IF IsDigit(s) THEN PyInt(s)
        ELSE IF ~m.matched THEN Returned(<<0>>)
        ELSE Returned(Normalize(
                 ToBytes(DecimalValue(m.whole))
                 \o Scaled(DecimalValue(m.fraction),
                           Power(10, Len(m.fraction)), m.power)))

(***************************************************************************)
(* Exact arithmetic of the statistics module: a number is a reduced        *)
(* fraction <<numerator, denominator>>.                                    *)
(***************************************************************************)
RECURSIVE Gcd(_, _)
Gcd(a, b) == IF b = 0 THEN a ELSE Gcd(b, a % b)

Abs(x) == IF x < 0 THEN -x ELSE x

Frac(n, d) ==
    LET g == Gcd(Abs(n), d) IN IF n = 0 THEN <<0, 1>> ELSE <<n \div g, d \div g>>

Zero == <<0, 1>>

RECURSIVE SumSeq(_)
SumSeq(s) == IF s = <<>> THEN 0 ELSE Head(s) + SumSeq(Tail(s))

SumSquares(s) == SumSeq([k \in DOMAIN s |-> s[k] * s[k]])

\* any(xs): some element is truthy.
PyAny(s) == \E k \in DOMAIN s : s[k] # 0

\* Mutant of MeanOrZero: the sum is not divided by the number of results.
MeanOrZero_Sum(s) == IF s = <<>> THEN Zero ELSE Frac(SumSeq(s), 1)

\* statistics.mean(xs) if xs else 0
MeanOrZero(s) == IF s = <<>> THEN Zero ELSE Frac(SumSeq(s), Len(s))

\* statistics.StatisticsError, in the place of a number: not a fraction.
StatisticsError == <<1, 0>>

\* statistics.stdev(xs), represented by the sample variance it is the square
\* root of: (n * sum(x^2) - sum(x)^2) / (n * (n - 1)).  It raises
\* StatisticsError for fewer than two values.
Stdev(s) ==
    LET n == Len(s)
    IN  IF n < 2 THEN StatisticsError
        ELSE Frac(n * SumSquares(s) - SumSeq(s) * SumSeq(s), n * (n - 1))

(***************************************************************************)
(* Phase 1: the records of query_execution_data.                           *)
(***************************************************************************)
\* The memory details the three regular expressions extract from the message.
MemoryDetails(msg) ==
    LET found == [requested_memory |-> msg.would_use,
                  current_rss      |-> msg.current_rss,
                  maximum_memory   |-> msg.maximum]
        keys  == {k \in DOMAIN found : found[k] # ""}
    IN  [k \in keys |-> found[k]]

\* error_type and error_details of the except handler.
Classify(msg) ==
    IF msg.mle
    THEN [error |-> "MEMORY_LIMIT_EXCEEDED", error_details |-> MemoryDetails(msg)]
    ELSE [error |-> "ERROR",
          error_details |-> IF msg.code # "" THEN [error_code |-> msg.code]
                                             ELSE EmptyDict]

\* The record appended after a successful client.query.
SuccessRecord(b, id, elapsed, rows, r) ==
    [benchmark_name |-> b.name, query |-> b.query, query_id |-> id,
     execution_time |-> elapsed, rows_returned |-> rows, run |-> r]

\* The record appended by the except handler.
FailureRecord(b, elapsed, r, msg) ==
    [benchmark_name |-> b.name, query |-> b.query, query_id |-> NoQueryId,
     execution_time |-> elapsed, rows_returned |-> 0, run |-> r,
     error |-> Classify(msg).error, error_message |-> msg,
     error_details |-> Classify(msg).error_details]

\* exec_data.get("error")
HasError(exec_data) == "error" \in DOMAIN exec_data

(***************************************************************************)
(* Phase 2: statistics dictionaries and BenchmarkResults.                  *)
(***************************************************************************)
\* stats built from a QueryFinish row.
FinishedStats(row) ==
    [memory_usage |-> row.memory_usage, read_rows |-> row.read_rows,
     read_bytes |-> row.read_bytes, written_rows |-> row.written_rows,
     written_bytes |-> row.written_bytes, result_rows |-> row.result_rows,
     result_bytes |-> row.result_bytes]

\* stats built from an exception row.
ErroredStats(row) ==
    [exception |-> row.exception, exception_code |-> row.exception_code,
     query_duration_ms |-> Frac(row.query_duration_ms, 1000),
     memory_usage |-> PyOr(row.peak_memory_usage, 0),
     read_rows |-> 0, read_bytes |-> 0, written_rows |-> 0, written_bytes |-> 0,
     result_rows |-> 0, result_bytes |-> 0, failed |-> TRUE]

OptimizationHints ==
    << "Consider adding LIMIT to reduce result set size",
       "Break down the query into smaller parts",
       "Use WITH clauses for complex subqueries",
       "Add more specific WHERE conditions",
       "Consider using approximate functions like approxDistinct()",
       "Reduce the number of columns in SELECT" >>

BenchmarkResult(name, time, memory, rows_read, bytes_read, rows_returned, query, metrics) ==
    [query_name |-> name, execution_time |-> time, memory_usage |-> memory,
     rows_read |-> rows_read, bytes_read |-> bytes_read,
     rows_returned |-> rows_returned, query |-> query,
     additional_metrics |-> metrics]

\* The result of a record that carries an error.
FailedResult(exec_data) ==
    LET base  == [error |-> exec_data.error,
                  error_message |-> exec_data.error_message,
                  written_rows |-> 0, written_bytes |-> 0, result_bytes |-> 0]
        det   == IF "error_details" \in DOMAIN exec_data
                 THEN [error_details |-> exec_data.error_details]
                 ELSE EmptyDict
        hints == IF /\ exec_data.error = "MEMORY_LIMIT_EXCEEDED"
                    /\ "error_details" \in DOMAIN exec_data
                    /\ "requested_memory" \in DOMAIN exec_data.error_details
                 THEN [memory_usage_estimated |-> TRUE,
                       optimization_hints |-> OptimizationHints]
                 ELSE EmptyDict
    IN  BenchmarkResult(exec_data.benchmark_name, exec_data.execution_time,
                        0, 0, 0, 0, exec_data.query, base @@ det @@ hints)

\* Mutant of ReconciledResult: a NULL result_rows becomes 0, like the others.
ReconciledResult_NoFallback(exec_data, stats) ==
    BenchmarkResult(exec_data.benchmark_name, exec_data.execution_time,
                    PyOr(DictGet(stats, "memory_usage", Null), 0),
                    PyOr(DictGet(stats, "read_rows", Null), 0),
                    PyOr(DictGet(stats, "read_bytes", Null), 0),
                    PyOr(DictGet(stats, "result_rows", Null), 0),
                    exec_data.query,
                    [written_rows |-> PyOr(DictGet(stats, "written_rows", Null), 0),
                     written_bytes |-> PyOr(DictGet(stats, "written_bytes", Null), 0),
                     result_bytes |-> PyOr(DictGet(stats, "result_bytes", Null), 0)])

\* The result of a record whose statistics were found.
ReconciledResult(exec_data, stats) ==
    LET memory_usage  == PyOr(DictGet(stats, "memory_usage", Null), 0)
        rows_read     == PyOr(DictGet(stats, "read_rows", Null), 0)
        bytes_read    == PyOr(DictGet(stats, "read_bytes", Null), 0)
        written_rows  == PyOr(DictGet(stats, "written_rows", Null), 0)
        written_bytes == PyOr(DictGet(stats, "written_bytes", Null), 0)
        result_rows   == PyOr(PyOr(DictGet(stats, "result_rows", Null),
                                   exec_data.rows_returned), 0)
        result_bytes  == PyOr(DictGet(stats, "result_bytes", Null), 0)
    IN  BenchmarkResult(exec_data.benchmark_name, exec_data.execution_time,
                        memory_usage, rows_read, bytes_read, result_rows,
                        exec_data.query,
                        [written_rows |-> written_rows,
                         written_bytes |-> written_bytes,
                         result_bytes |-> result_bytes])

\* The fallback result when _get_query_stats returned an empty dict.
UnreconciledResult(exec_data) ==
    BenchmarkResult(exec_data.benchmark_name, exec_data.execution_time,
                    0, 0, 0, exec_data.rows_returned, exec_data.query,
                    [written_rows |-> 0, written_bytes |-> 0, result_bytes |-> 0,
                     warning |-> "Query stats not available"])

\* if stats: ... else: ...
StatsResult(exec_data, stats) ==
    IF stats # EmptyDict THEN ReconciledResult(exec_data, stats)
                         ELSE UnreconciledResult(exec_data)

(***************************************************************************)
(* format_results                                                          *)
(***************************************************************************)
Column(rs, f) == [k \in DOMAIN rs |-> rs[k][f]]
Metric(rs, f) == [k \in DOMAIN rs |-> DictGet(rs[k].additional_metrics, f, 0)]

\* Mutant of Several: the deviation is computed for a single result too.
Several_One(xs) == Len(xs) > 0

\* if len(execution_times) > 1
Several(xs) == Len(xs) > 1

\* One entry of benchmark_summary.
SummaryEntry(b) ==
    LET execution_times == Column(b.results, "execution_time")
        memory_usages   == Column(b.results, "memory_usage")
        rows_read       == Column(b.results, "rows_read")
        bytes_read      == Column(b.results, "bytes_read")
        several         == Several(execution_times)
    IN  [name |-> b.name, description |-> b.description,
         avg_execution_time |-> MeanOrZero(execution_times),
         std_dev_time       |-> IF several THEN Stdev(execution_times) ELSE Zero,
         avg_memory_usage   |-> MeanOrZero(memory_usages),
         std_dev_memory     |-> IF several /\ PyAny(memory_usages)
                                THEN Stdev(memory_usages) ELSE Zero,
         avg_rows_read      |-> MeanOrZero(rows_read),
         std_dev_rows_read  |-> IF several /\ PyAny(rows_read)
                                THEN Stdev(rows_read) ELSE Zero,
         avg_bytes_read     |-> MeanOrZero(bytes_read),
         std_dev_bytes_read |-> IF several /\ PyAny(bytes_read)
                                THEN Stdev(bytes_read) ELSE Zero,
         avg_written_rows   |-> MeanOrZero(Metric(b.results, "written_rows")),
         avg_written_bytes  |-> MeanOrZero(Metric(b.results, "written_bytes")),
         avg_result_bytes   |-> MeanOrZero(Metric(b.results, "result_bytes")),
         runs |-> Len(b.results)]

\* detailed_results[name]: a later registry entry of the same name overwrites.
DetailedResults(bs) ==
    [n \in {bs[i].name : i \in DOMAIN bs} |->
        LET last == CHOOSE i \in DOMAIN bs :
                        /\ bs[i].name = n
                        /\ \A j \in DOMAIN bs : bs[j].name = n => j <= i
        IN  bs[last].results]

FormatResults(bs) ==
    [database |-> "ClickHouse",
     benchmark_summary |-> [i \in DOMAIN bs |-> SummaryEntry(bs[i])],
     detailed_results |-> DetailedResults(bs)]

\* print_summary_table: the number under Result Rows for a summary entry,
\* item.get('avg_rows_returned', 0).
ResultRowsColumn(item) == DictGet(item, "avg_rows_returned", Zero)

(***************************************************************************)
(* The state after construction.                                           *)
(***************************************************************************)
NoValue == <<>>

Outcome(op, outcome, issued, value) ==
    [op |-> op, outcome |-> outcome, issued |-> issued, value |-> value]

Init ==
    /\ client = FALSE
    /\ connected = FALSE
    /\ session_memory = DefaultMemory
    /\ benchmarks = <<>>
    /\ invocations = <<>>
    /\ pc = "idle"
    /\ caller = "none"
    /\ to_run = <<>>
    /\ memory_limits = [n \in Names |-> NoLimit]
    /\ skip_benchmarks = {}
    /\ setup_issued = 0
    /\ bi = 0
    /\ run = 0
    /\ start_time = Unbound
    /\ clock = 0
    /\ next_query_id = 1
    /\ query_execution_data = <<>>
    /\ submissions = <<>>
    /\ ri = 0
    /\ attempt = 0
    /\ results = <<>>
    /\ origin = <<>>
    /\ looked_up = {}
    /\ last_lookup = "none"
    /\ lookups_issued = <<>>
    /\ waited = 0
    /\ settle_waits = 0
    /\ faults = 0
    /\ ret = Outcome("none", "none", FALSE, NoValue)

registry_vars == <<benchmarks, invocations>>
session_vars  == <<client, connected, session_memory>>
args_vars     == <<caller, to_run, memory_limits, skip_benchmarks>>
phase1_vars   == <<setup_issued, bi, run, start_time, clock, next_query_id,
                   query_execution_data, submissions>>
phase2_vars   == <<ri, attempt, results, origin, looked_up, last_lookup,
                    lookups_issued, waited, settle_waits>>
budget_vars   == <<faults>>

(***************************************************************************)
(* connect                                                                 *)
(***************************************************************************)
\* get_client may raise ("no_client"), the probe SELECT 1 may raise
\* ("probe_failed"), or both succeed.  A new client is a new session.
Connect ==
    /\ pc = "idle"
    /\ \E outcome \in {"connected", "no_client", "probe_failed"} :
        /\ client' = IF outcome = "no_client" THEN client ELSE TRUE
        /\ connected' = (outcome = "connected")
        /\ session_memory' = IF outcome = "no_client" THEN session_memory
                                                      ELSE DefaultMemory
        /\ ret' = Outcome("connect",
                          IF outcome = "connected" THEN "True" ELSE "False",
                          outcome # "no_client", NoValue)
    /\ UNCHANGED <<registry_vars, pc, args_vars, phase1_vars, phase2_vars, budget_vars>>

(***************************************************************************)
(* add_benchmark                                                           *)
(***************************************************************************)
QueryBenchmark(name, query, description, run_count) ==
    [name |-> name, query |-> query, description |-> description,
     run_count |-> run_count, results |-> <<>>]

\* sum of run_count over a list of benchmarks
TotalRuns(list) == SumSeq([i \in DOMAIN list |-> list[i].run_count])

AddBenchmark ==
    /\ pc = "idle"
    /\ \E name \in Names, query \in Queries, run_count \in RunCounts :
        /\ TotalRuns(benchmarks) + run_count <= MaxRuns
        /\ benchmarks' = Append(benchmarks, QueryBenchmark(name, query, "", run_count))
    /\ UNCHANGED invocations
    /\ ret' = Outcome("add_benchmark", "None", FALSE, NoValue)
    /\ UNCHANGED <<session_vars, pc, args_vars, phase1_vars, phase2_vars, budget_vars>>

(***************************************************************************)
(* add_benchmark_from_dict, add_benchmarks_from_list                       *)
(***************************************************************************)
\* None of dict.get(key); no name and no query text is this string.
PyNone == "None"

\* not x, for a string or None
Not(x) == x = PyNone \/ x = ""

\* The dict definitions: any of the keys may be missing, the name may be empty.
BenchmarkDict(keys, name, query, run_count) ==
    [k \in keys |-> CASE k = "name" -> name
                      [] k = "query" -> query
                      [] k = "run_count" -> run_count]
BenchmarkDicts ==
    {BenchmarkDict(keys, name, query, run_count) :
        keys \in SUBSET {"name", "query", "run_count"},
        name \in Names \cup {""}, query \in Queries, run_count \in RunCounts}

\* The dicts of the lists: the name may be missing or empty.
ListDicts ==
    {d \in BenchmarkDicts : {"query", "run_count"} \subseteq DOMAIN d}

\* The registry after add_benchmark_from_dict(benchmark_dict).
AddedFromDict(bs, benchmark_dict) ==
    LET name        == DictGet(benchmark_dict, "name", PyNone)
        query       == DictGet(benchmark_dict, "query", PyNone)
        description == DictGet(benchmark_dict, "description", "")
        run_count   == DictGet(benchmark_dict, "run_count", 3)
    IN  IF Not(name) \/ Not(query) THEN bs
        ELSE Append(bs, QueryBenchmark(name, query, description, run_count))

\* The registry after add_benchmarks_from_list(dicts).
RECURSIVE AddedFromList(_, _)
AddedFromList(bs, dicts) ==
    IF dicts = <<>> THEN bs
    ELSE AddedFromList(AddedFromDict(bs, Head(dicts)), Tail(dicts))

AddBenchmarkFromDict ==
    /\ pc = "idle"
    /\ \E benchmark_dict \in BenchmarkDicts :
        /\ TotalRuns(AddedFromDict(benchmarks, benchmark_dict)) <= MaxRuns
        /\ benchmarks' = AddedFromDict(benchmarks, benchmark_dict)
    /\ UNCHANGED invocations
    /\ ret' = Outcome("add_benchmark_from_dict", "None", FALSE, NoValue)
    /\ UNCHANGED <<session_vars, pc, args_vars, phase1_vars, phase2_vars, budget_vars>>

AddBenchmarksFromList ==
    /\ pc = "idle"
    /\ \E n \in 0..2 : \E dicts \in [1..n -> ListDicts] :
        /\ TotalRuns(AddedFromList(benchmarks, dicts)) <= MaxRuns
        /\ benchmarks' = AddedFromList(benchmarks, dicts)
    /\ UNCHANGED invocations
    /\ ret' = Outcome("add_benchmarks_from_list", "None", FALSE, NoValue)
    /\ UNCHANGED <<session_vars, pc, args_vars, phase1_vars, phase2_vars, budget_vars>>

(***************************************************************************)
(* What the callers of _run_benchmark_queries do with its results.         *)
(***************************************************************************)
\* run_all_benchmarks: the result goes to the first registry entry of its name.
AppendResult(bs, r) ==
    LET same == {i \in DOMAIN bs : bs[i].name = r.query_name}
    IN  IF same = {} THEN bs
        ELSE LET first == CHOOSE i \in same : \A j \in same : i <= j
             IN  [bs EXCEPT ![first].results = Append(@, r)]

RECURSIVE Organize(_, _)
Organize(bs, rs) ==
    IF rs = <<>> THEN bs ELSE Organize(AppendResult(bs, Head(rs)), Tail(rs))

\* _run_benchmark_query: results[0], or a basic error result.
FirstResult(b, rs) ==
    IF rs # <<>> THEN rs[1]
    ELSE BenchmarkResult(b.name, 0, 0, 0, 0, 0, b.query,
                         [error |-> "Failed to execute query"])

\* The caller's return once _run_benchmark_queries has returned rs.
ReturnTo(op, list, rs, issued) ==
    CASE op = "run_all_benchmarks" ->
            /\ benchmarks' = Organize(benchmarks, rs)
            /\ invocations' = IF issued THEN Append(invocations, skip_benchmarks)
                                        ELSE invocations
            /\ ret' = Outcome(op, "report", issued, FormatResults(benchmarks'))
      [] op = "_run_benchmark_query" ->
            /\ UNCHANGED registry_vars
            /\ ret' = Outcome(op, "result", issued, FirstResult(list[1], rs))
      [] OTHER ->
            /\ UNCHANGED registry_vars
            /\ ret' = Outcome(op, "results", issued, rs)

\* _run_benchmark_queries logs "client not initialized" and returns [].
Rejected(op, list) ==
    IF op = "_run_benchmark_queries"
    THEN /\ UNCHANGED registry_vars
         /\ ret' = Outcome(op, "not_connected", FALSE, <<>>)
    ELSE ReturnTo(op, list, <<>>, FALSE)

\* An exception leaves _run_benchmark_queries and its caller.
Escape ==
    /\ pc' = "done"
    /\ ret' = Outcome(caller, "exception", TRUE, NoValue)

(***************************************************************************)
(* _run_benchmark_queries: entry                                           *)
(***************************************************************************)
AsArgument(b) ==
    [name |-> b.name, query |-> b.query, description |-> b.description,
     run_count |-> b.run_count]

\* The index of the first benchmark at or after j that has a run, or 0.
FirstWithRuns(list, j) ==
    LET later == {i \in DOMAIN list : i >= j /\ list[i].run_count > 0}
    IN  IF later = {} THEN 0 ELSE CHOOSE i \in later : \A k \in later : i <= k

\* if not self.client: return []; otherwise the locals of a new batch.
EnterQueries(op, list, limits) ==
    /\ caller' = op
    /\ to_run' = list
    /\ memory_limits' = limits
    /\ IF ~client
       THEN /\ Rejected(op, list)
            /\ UNCHANGED <<pc, phase1_vars, phase2_vars, budget_vars>>
       ELSE /\ pc' = "setup"
            /\ ret' = Outcome(op, "running", FALSE, NoValue)
            /\ setup_issued' = 0
            /\ bi' = 0
            /\ run' = 0
            /\ start_time' = Unbound
            /\ query_execution_data' = <<>>
            /\ submissions' = <<>>
            /\ ri' = 0
            /\ attempt' = 0
            /\ results' = <<>>
            /\ origin' = <<>>
            /\ looked_up' = {}
            /\ last_lookup' = "none"
            /\ lookups_issued' = <<>>
            /\ waited' = 0
            /\ settle_waits' = 0
            /\ UNCHANGED <<registry_vars, clock, next_query_id, faults>>

Arguments(bs) == [i \in DOMAIN bs |-> AsArgument(bs[i])]

\* [b for b in self.benchmarks if b.name not in skip_benchmarks]
Filtered(bs, skip) ==
    LET keep == {i \in DOMAIN bs : bs[i].name \notin skip}
        RECURSIVE Pick(_)
        Pick(i) == IF i > Len(bs) THEN <<>>
                   ELSE IF i \in keep THEN <<AsArgument(bs[i])>> \o Pick(i + 1)
                   ELSE Pick(i + 1)
    IN  Pick(1)

NamesOf(bs) == {bs[i].name : i \in DOMAIN bs}

\* The memory-limits maps whose keys are names of the registry.
LimitMaps == {m \in [Names -> Limits] :
                \A n \in Names \ NamesOf(benchmarks) : m[n] = NoLimit}
DataLimitMaps == {m \in [Names -> DataLimits] :
                    \A n \in Names \ NamesOf(benchmarks) : m[n] = NoLimit}

(***************************************************************************)
(* run_all_benchmarks, _run_benchmark_queries, _run_benchmark_query        *)
(***************************************************************************)
RunAllBenchmarksWith(limit_maps, skip_lists) ==
    /\ pc = "idle"
    /\ IF ~connected
       THEN /\ ret' = Outcome("run_all_benchmarks", "not_connected", FALSE, NoValue)
            /\ UNCHANGED <<registry_vars, pc, args_vars, phase1_vars, phase2_vars,
                           budget_vars>>
       ELSE \E limits \in limit_maps, skip \in skip_lists :
                /\ skip_benchmarks' = skip
                /\ EnterQueries("run_all_benchmarks",
                                IF skip # {} THEN Filtered(benchmarks, skip)
                                             ELSE Arguments(benchmarks),
                                limits)
    /\ UNCHANGED session_vars

\* The skip-lists made of names of the registry.
SkipLists == SUBSET NamesOf(benchmarks)

RunAllBenchmarks == RunAllBenchmarksWith(LimitMaps, SkipLists)

\* A direct call with the registry and the default memory_limits=None.
RunBenchmarkQueries ==
    /\ pc = "idle"
    /\ EnterQueries("_run_benchmark_queries", Arguments(benchmarks),
                    [n \in Names |-> NoLimit])
    /\ UNCHANGED <<session_vars, skip_benchmarks>>

RunBenchmarkQuery ==
    /\ pc = "idle"
    /\ \E name \in Names, query \in Queries :
        IF ~client
        THEN /\ ret' = Outcome("_run_benchmark_query", "not_connected", FALSE, NoValue)
             /\ UNCHANGED <<registry_vars, pc, args_vars, phase1_vars, phase2_vars,
                            budget_vars>>
        ELSE /\ EnterQueries("_run_benchmark_query",
                             <<AsArgument(QueryBenchmark(name, query, "", 1))>>,
                             [n \in Names |-> NoLimit])
             /\ UNCHANGED skip_benchmarks
    /\ UNCHANGED session_vars

(***************************************************************************)
(* _run_benchmark_queries: Phase 1                                         *)
(***************************************************************************)
\* The four statements before the loop, outside any try: the k-th (from 0)
\* raises and the exception escapes, or all four succeed (k = 4).
Setup ==
    /\ pc = "setup"
    /\ \E k \in 0..4 :
        /\ setup_issued' = IF k < 4 THEN k + 1 ELSE 4
        /\ IF k < 4
           THEN /\ faults < MaxFaults
                /\ faults' = faults + 1
                /\ Escape
                /\ UNCHANGED <<bi, run>>
           ELSE /\ faults' = faults
                /\ bi' = FirstWithRuns(to_run, 1)
                /\ run' = 0
                /\ pc' = IF bi' = 0 THEN "settle" ELSE "run"
                /\ ret' = [ret EXCEPT !.issued = TRUE]
    /\ UNCHANGED <<session_vars, registry_vars, args_vars, start_time, clock,
                   next_query_id, query_execution_data, submissions, phase2_vars>>

\* memory_limits.get(name) of the benchmark being run.
MemoryLimit == memory_limits[to_run[bi].name]

\* int(memory_limit) raises ValueError and so does _parse_memory_limit: the
\* exception leaves the inner try for the handler of the run.
CapRaises(limit) ==
    /\ limit.kind = "str"
    /\ PyInt(limit.s).raised
    /\ ParseMemoryLimit(limit.s).raised

\* The value sent in SET max_memory_usage: int(memory_limit), or on ValueError
\* _parse_memory_limit(memory_limit).
CapBytes(limit) ==
    IF limit.kind = "int" THEN limit.v
    ELSE IF ~PyInt(limit.s).raised THEN BytesValue(PyInt(limit.s).value)
    ELSE BytesValue(ParseMemoryLimit(limit.s).value)

\* str(e) of the ValueError of int(): no memory-limit signature, no error code.
ValueErrorMsg ==
    [mle |-> FALSE, would_use |-> "", current_rss |-> "", maximum |-> "", code |-> ""]

\* The except handler at time now, with start_time st: it reads start_time,
\* which is unbound when no query of this batch has been submitted yet.
Except(st, now, msg) ==
    IF st = Unbound
    THEN /\ Escape
         /\ UNCHANGED query_execution_data
    ELSE /\ pc' = "pause"
         /\ ret' = ret
         /\ query_execution_data' =
                Append(query_execution_data,
                       FailureRecord(to_run[bi], now - st, run, msg))

\* Top of the try block: SET max_memory_usage when the benchmark has a limit.
BeginRun ==
    /\ pc = "run"
    /\ IF Truthy(MemoryLimit)
       THEN IF CapRaises(MemoryLimit)
            THEN /\ Except(start_time, clock, ValueErrorMsg)
                 /\ UNCHANGED <<session_memory, faults>>
            ELSE \/ /\ session_memory' = CapBytes(MemoryLimit)
                    /\ pc' = "submit"
                    /\ UNCHANGED <<ret, query_execution_data, faults>>
                 \/ /\ faults < MaxFaults
                    /\ faults' = faults + 1
                    /\ \E msg \in ErrorMsgs : Except(start_time, clock, msg)
                    /\ UNCHANGED session_memory
       ELSE /\ pc' = "submit"
            /\ UNCHANGED <<session_memory, ret, query_execution_data, faults>>
    /\ UNCHANGED <<client, connected, registry_vars, args_vars, setup_issued, bi, run,
                   start_time, clock, next_query_id, submissions, phase2_vars>>

\* start_time = time.time(); client.query(query); the query takes one tick.
SubmitWith(row_counts, error_msgs) ==
    /\ pc = "submit"
    /\ start_time' = clock
    /\ clock' = clock + 1
    /\ submissions' = Append(submissions,
                             [name |-> to_run[bi].name, run |-> run, index |-> bi,
                              max_memory_usage |-> session_memory])
    /\ \/ \E rows \in row_counts :
            /\ query_execution_data' =
                   Append(query_execution_data,
                          SuccessRecord(to_run[bi], next_query_id,
                                        clock' - start_time', rows, run))
            /\ next_query_id' = next_query_id + 1
            /\ pc' = IF Truthy(MemoryLimit) THEN "reset" ELSE "pause"
            /\ UNCHANGED <<ret, faults>>
       \/ /\ faults < MaxFaults
          /\ faults' = faults + 1
          /\ \E msg \in error_msgs : Except(start_time', clock', msg)
          /\ UNCHANGED next_query_id
    /\ UNCHANGED <<session_vars, registry_vars, args_vars, setup_issued, bi, run,
                   phase2_vars>>

Submit == SubmitWith(RowCounts, ErrorMsgs)

\* SET max_memory_usage = 0 after a successful query of a limited benchmark.
ResetCap ==
    /\ pc = "reset"
    /\ \/ /\ session_memory' = DefaultMemory
          /\ pc' = "pause"
          /\ UNCHANGED <<ret, query_execution_data, faults>>
       \/ /\ faults < MaxFaults
          /\ faults' = faults + 1
          /\ \E msg \in ErrorMsgs : Except(start_time, clock, msg)
          /\ UNCHANGED session_memory
    /\ UNCHANGED <<client, connected, registry_vars, args_vars, setup_issued, bi, run,
                   start_time, clock, next_query_id, submissions, phase2_vars>>

\* time.sleep(1), then the next run, the next benchmark, or the end of the loop.
Pause ==
    /\ pc = "pause"
    /\ clock' = clock + 1
    /\ IF run + 1 < to_run[bi].run_count
       THEN /\ run' = run + 1
            /\ bi' = bi
            /\ pc' = "run"
       ELSE /\ run' = 0
            /\ bi' = FirstWithRuns(to_run, bi + 1)
            /\ pc' = IF bi' = 0 THEN "settle" ELSE "run"
    /\ UNCHANGED <<session_vars, registry_vars, args_vars, setup_issued, start_time,
                   next_query_id, query_execution_data, submissions, phase2_vars,
                   budget_vars, ret>>

\* time.sleep(10) before Phase 2 (the clock is read in Phase 1 only).
Settle ==
    /\ pc = "settle"
    /\ pc' = "reconcile"
    /\ ri' = 1
    /\ settle_waits' = settle_waits + 1
    /\ UNCHANGED <<session_vars, registry_vars, args_vars, setup_issued, bi, run,
                   start_time, clock, next_query_id, query_execution_data, submissions,
                   attempt, results, origin, looked_up, last_lookup, lookups_issued,
                   waited, budget_vars, ret>>

(***************************************************************************)
(* _run_benchmark_queries: Phase 2                                         *)
(***************************************************************************)
\* Mutant of SkipsLookup: Phase 2 sends every record to _get_query_stats.
SkipsLookup_Never(exec_data) == FALSE

\* if exec_data.get("error"): the result comes from the Phase-1 record.
SkipsLookup(exec_data) == HasError(exec_data)

\* How Phase 2 obtained a result.
Origin(kind, rec, row) == [kind |-> kind, rec |-> rec, row |-> row]

\* Mutant of Reconciled: the result goes to the front of the list.
Reconciled_Front(result, from) ==
    /\ results' = <<result>> \o results
    /\ origin' = Append(origin, from)
    /\ ri' = ri + 1
    /\ attempt' = 0

\* The end of one iteration of the Phase-2 loop.
Reconciled(result, from) ==
    /\ results' = Append(results, result)
    /\ origin' = Append(origin, from)
    /\ ri' = ri + 1
    /\ attempt' = 0

ReconcileFailed ==
    /\ pc = "reconcile"
    /\ ri <= Len(query_execution_data)
    /\ SkipsLookup(query_execution_data[ri])
    /\ Reconciled(FailedResult(query_execution_data[ri]), Origin("failed", ri, NoValue))
    /\ UNCHANGED <<session_vars, registry_vars, pc, args_vars, phase1_vars, looked_up,
                   last_lookup, lookups_issued, waited, settle_waits, budget_vars, ret>>

\* The first lookup of a record that does not find its finished record is a
\* fault; the later lookups of that record are free.
FirstMiss(a) ==
    IF a = 0 THEN faults < MaxFaults /\ faults' = faults + 1
             ELSE faults' = faults

\* Mutant of AttemptsLeft: the loop runs one attempt too many.
AttemptsLeft_OneMore(a) == a <= max_attempts

\* for attempt in range(max_attempts)
AttemptsLeft(a) == a < max_attempts

\* The lookups of one iteration that raise: the finished lookup, the errored
\* lookup, or the reading of the row one of them returned.
RaisedLookups == {"finished_lookup_raised", "errored_lookup_raised", "row_raised"}

\* The iterations that end with no stats: no row yet, or an exception.
Misses == {"no_record", "finished_lookup_raised"}
\* The wider choice of the data specification.
DataMisses == {"no_record"} \cup RaisedLookups

\* Mutant of Continues: an exception of a lookup ends the loop.
Continues_RaisedEnds(miss, a) == miss = "no_record" /\ AttemptsLeft(a + 1)

\* Whether the loop goes on after an iteration that got no stats: the except
\* clause is inside the loop, so a raised lookup is one more iteration.
Continues(miss, a) == AttemptsLeft(a + 1)

\* A lookup of the query log and what the server answered: "row", "none"
\* (no row), "raised" or, for the errored lookup, "unreadable" (a row whose
\* query_duration_ms is NULL, so that row[3] / 1000.0 raises).
Lookup(lookup, answer) == [lookup |-> lookup, answer |-> answer]
FinishedAnswers == {"row", "none", "raised"}
ErroredAnswers == {"row", "none", "raised", "unreadable"}

\* Mutant of Attempt: the errored lookup is issued first.
Attempt_ErroredFirst(finished, finished_row, errored, errored_row) ==
    CASE errored = "raised" ->
            [kind |-> "errored_lookup_raised", row |-> {},
             issued |-> <<Lookup("errored", "raised")>>]
      [] errored = "row" ->
            [kind |-> "errored", row |-> errored_row,
             issued |-> <<Lookup("errored", "row")>>]
      [] errored = "unreadable" ->
            [kind |-> "row_raised", row |-> {},
             issued |-> <<Lookup("errored", "row")>>]
      [] finished = "raised" ->
            [kind |-> "finished_lookup_raised", row |-> {},
             issued |-> <<Lookup("errored", "none"), Lookup("finished", "raised")>>]
      [] finished = "row" ->
            [kind |-> "finished", row |-> finished_row,
             issued |-> <<Lookup("errored", "none"), Lookup("finished", "row")>>]
      [] OTHER ->
            [kind |-> "no_record", row |-> {},
             issued |-> <<Lookup("errored", "none"), Lookup("finished", "none")>>]

\* The body of the try of one attempt, given what the server answers to the
\* finished lookup and to the errored lookup: how the attempt ends, the row
\* its stats are built from, and the lookups it issued.
Attempt(finished, finished_row, errored, errored_row) ==
    CASE finished = "raised" ->
            [kind |-> "finished_lookup_raised", row |-> {},
             issued |-> <<Lookup("finished", "raised")>>]
      [] finished = "row" ->
            [kind |-> "finished", row |-> finished_row,
             issued |-> <<Lookup("finished", "row")>>]
      [] errored = "raised" ->
            [kind |-> "errored_lookup_raised", row |-> {},
             issued |-> <<Lookup("finished", "none"), Lookup("errored", "raised")>>]
      [] errored = "row" ->
            [kind |-> "errored", row |-> errored_row,
             issued |-> <<Lookup("finished", "none"), Lookup("errored", "row")>>]
      [] errored = "unreadable" ->
            [kind |-> "row_raised", row |-> {},
             issued |-> <<Lookup("finished", "none"), Lookup("errored", "row")>>]
      [] OTHER ->
            [kind |-> "no_record", row |-> {},
             issued |-> <<Lookup("finished", "none"), Lookup("errored", "none")>>]

\* Mutant of Delay: the same wait after every attempt.
Delay_Constant(a) == 1

\* delay = (attempt + 1) * 0.5, in units of 0.5 s
Delay(a) == a + 1

\* if attempt < max_attempts - 1: time.sleep(...)
Sleeps(a) == a < max_attempts - 1

\* One iteration of the loop of _get_query_stats for the record at ri, and,
\* when the loop ends with it, the result built from the returned stats.
\* The rows a lookup may return: all of them when the code reads the row, one
\* of them when the row is never read.
RowsRead(read, rows) == IF read THEN rows ELSE {CHOOSE row \in rows : TRUE}

\* What the query log holds for a query identifier when an attempt looks it
\* up: the answer to the finished lookup and the answer to the errored
\* lookup.  Logs: a finished row, an errored row, nothing yet, or a finished
\* lookup that raises; DataLogs: every pair of answers, the errored lookup
\* answering with a row or with nothing where the code never issues it.
Logs == {<<"row", "none">>, <<"none", "row">>, <<"none", "none">>, <<"raised", "none">>}
DataLogs ==
    {log \in FinishedAnswers \X ErroredAnswers :
        log[1] # "none" => log[2] \in {"none", "row"}}

GetQueryStatsWith(finished_rows, misses, logs) ==
    /\ pc = "reconcile"
    /\ ri <= Len(query_execution_data)
    /\ ~SkipsLookup(query_execution_data[ri])
    /\ LET exec_data == query_execution_data[ri]
       IN  IF exec_data.query_id = NoQueryId
           THEN /\ Reconciled(StatsResult(exec_data, EmptyDict),
                              Origin("no_id", ri, NoValue))
                /\ UNCHANGED <<looked_up, last_lookup, lookups_issued, waited, faults>>
           ELSE /\ AttemptsLeft(attempt)
                /\ looked_up' = looked_up \cup {ri}
                /\ \E log \in logs :
                   \E finished_row \in RowsRead(log[1] = "row", finished_rows),
                      errored_row \in RowsRead(log[1] # "row" /\ log[2] = "row",
                                               ErroredRows) :
                     LET a == Attempt(log[1], finished_row, log[2], errored_row)
                     IN  /\ a.kind \in misses \cup {"finished", "errored"}
                         /\ last_lookup' = a.kind
                         /\ lookups_issued' = a.issued
                         /\ CASE a.kind = "finished" ->
                                    /\ Reconciled(StatsResult(exec_data, FinishedStats(a.row)),
                                                  Origin("finished", ri, a.row))
                                    /\ waited' = 0
                                    /\ UNCHANGED faults
                              [] a.kind = "errored" ->
                                    /\ FirstMiss(attempt)
                                    /\ Reconciled(StatsResult(exec_data, ErroredStats(a.row)),
                                                  Origin("errored", ri, a.row))
                                    /\ waited' = 0
                              [] OTHER ->
                                    /\ FirstMiss(attempt)
                                    /\ waited' = IF Sleeps(attempt) THEN Delay(attempt)
                                                                    ELSE 0
                                    /\ IF Continues(a.kind, attempt)
                                       THEN /\ attempt' = attempt + 1
                                            /\ UNCHANGED <<ri, results, origin>>
                                       ELSE Reconciled(StatsResult(exec_data, EmptyDict),
                                                       Origin("exhausted", ri, NoValue))
    /\ UNCHANGED <<session_vars, registry_vars, pc, args_vars, phase1_vars,
                   settle_waits, ret>>

GetQueryStats == GetQueryStatsWith(FinishedRows, Misses, Logs)

\* return results, and the caller's own return.
Return ==
    /\ pc = "reconcile"
    /\ ri > Len(query_execution_data)
    /\ pc' = "done"
    /\ ReturnTo(caller, to_run, results, TRUE)
    /\ UNCHANGED <<session_vars, args_vars, phase1_vars, phase2_vars, budget_vars>>

(***************************************************************************)
(* benchmark_table_info                                                    *)
(***************************************************************************)
\* SHOW TABLES and the per-table statements run outside any try.
BenchmarkTableInfo ==
    /\ pc = "idle"
    /\ IF ~client
       THEN ret' = Outcome("benchmark_table_info", "not_connected", FALSE, NoValue)
       ELSE \E outcome \in {"table_info", "exception"} :
                ret' = Outcome("benchmark_table_info", outcome, TRUE, NoValue)
    /\ UNCHANGED <<session_vars, registry_vars, pc, args_vars, phase1_vars,
                   phase2_vars, budget_vars>>

(***************************************************************************)
(* The harness.                                                            *)
(***************************************************************************)
Next ==
    \/ Connect
    \/ AddBenchmark
    \/ AddBenchmarkFromDict
    \/ AddBenchmarksFromList
    \/ RunAllBenchmarks
    \/ RunBenchmarkQueries
    \/ RunBenchmarkQuery
    \/ BenchmarkTableInfo
    \/ Setup
    \/ BeginRun
    \/ Submit
    \/ ResetCap
    \/ Pause
    \/ Settle
    \/ ReconcileFailed
    \/ GetQueryStats
    \/ Return

Spec == Init /\ [][Next]_vars

(***************************************************************************)
(* The data specification: a connected engine with one definition of one   *)
(* run, and the wide choice of row counts and query-log rows.              *)
(***************************************************************************)
\* A connected engine whose registry is bs.
InitConnected(bs) ==
    /\ client = TRUE
    /\ connected = TRUE
    /\ session_memory = DefaultMemory
    /\ benchmarks = bs
    /\ invocations = <<>>
    /\ pc = "idle"
    /\ caller = "none"
    /\ to_run = <<>>
    /\ memory_limits = [n \in Names |-> NoLimit]
    /\ skip_benchmarks = {}
    /\ setup_issued = 0
    /\ bi = 0
    /\ run = 0
    /\ start_time = Unbound
    /\ clock = 0
    /\ next_query_id = 1
    /\ query_execution_data = <<>>
    /\ submissions = <<>>
    /\ ri = 0
    /\ attempt = 0
    /\ results = <<>>
    /\ origin = <<>>
    /\ looked_up = {}
    /\ last_lookup = "none"
    /\ lookups_issued = <<>>
    /\ waited = 0
    /\ settle_waits = 0
    /\ faults = 0
    /\ ret = Outcome("connect", "True", TRUE, NoValue)

InitData == InitConnected(<<QueryBenchmark("q1", "SELECT 1", "", 1)>>)

SubmitData == SubmitWith(DataRowCounts, DataErrorMsgs)

GetQueryStatsData == GetQueryStatsWith(DataFinishedRows, DataMisses, DataLogs)

NextData ==
    \/ RunAllBenchmarks
    \/ Setup
    \/ BeginRun
    \/ SubmitData
    \/ ResetCap
    \/ Pause
    \/ Settle
    \/ ReconcileFailed
    \/ GetQueryStatsData
    \/ Return

SpecData == InitData /\ [][NextData]_vars

\* The batch runs: a step that can be taken is eventually taken.
SpecDataFair == SpecData /\ WF_vars(NextData)

(***************************************************************************)
(* The lookups specification: a connected engine with one definition of    *)
(* one run, every way a lookup can go, and the one query-log row of the    *)
(* main specification.                                                     *)
(***************************************************************************)
GetQueryStatsLookups == GetQueryStatsWith(FinishedRows, DataMisses, DataLogs)

NextLookups ==
    \/ RunAllBenchmarks
    \/ Setup
    \/ BeginRun
    \/ SubmitData
    \/ ResetCap
    \/ Pause
    \/ Settle
    \/ ReconcileFailed
    \/ GetQueryStatsLookups
    \/ Return

SpecLookups == InitData /\ [][NextLookups]_vars

\* The batch runs: a step that can be taken is eventually taken.
SpecLookupsFair == SpecLookups /\ WF_vars(NextLookups)

(***************************************************************************)
(* The repeat specification: a connected engine with a fixed registry on   *)
(* which run_all_benchmarks is run up to MaxInvocations times, without     *)
(* memory limits.                                                          *)
(***************************************************************************)
RepeatRegistries ==
    { <<QueryBenchmark("q1", "SELECT 1", "", 1), QueryBenchmark("q2", "SELECT 1", "", 1)>>,
      <<QueryBenchmark("q1", "SELECT 1", "", 2)>>,
      <<QueryBenchmark("q1", "SELECT 1", "", 1), QueryBenchmark("q1", "SELECT 1", "", 1)>> }

InitRepeat == \E bs \in RepeatRegistries : InitConnected(bs)

RunAllBenchmarksRepeat ==
    /\ Len(invocations) < MaxInvocations
    /\ RunAllBenchmarksWith({[n \in Names |-> NoLimit]}, SkipLists)

\* run_all_benchmarks has returned or raised: the engine is idle again, with
\* its registry, its results and its session as the call left them.
Resume ==
    /\ pc = "done"
    /\ pc' = "idle"
    /\ UNCHANGED <<session_vars, registry_vars, args_vars, phase1_vars, phase2_vars,
                   budget_vars, ret>>

NextRepeat ==
    \/ RunAllBenchmarksRepeat
    \/ Setup
    \/ BeginRun
    \/ Submit
    \/ Pause
    \/ Settle
    \/ ReconcileFailed
    \/ GetQueryStats
    \/ Return
    \/ Resume

SpecRepeat == InitRepeat /\ [][NextRepeat]_vars

(***************************************************************************)
(* The order specification: a connected engine whose registry is a         *)
(* definition of two runs, alone or followed by a definition of one run;   *)
(* batches are entered through run_all_benchmarks, _run_benchmark_queries  *)
(* or _run_benchmark_query.                                                *)
(***************************************************************************)
OrderRegistries ==
    {<<QueryBenchmark("q1", "SELECT 1", "", 2), QueryBenchmark("q2", "SELECT 1", "", 1)>>,
     <<QueryBenchmark("q1", "SELECT 1", "", 2)>>}

InitOrder == \E bs \in OrderRegistries : InitConnected(bs)

NextOrder ==
    \/ RunAllBenchmarks
    \/ RunBenchmarkQueries
    \/ RunBenchmarkQuery
    \/ Setup
    \/ BeginRun
    \/ Submit
    \/ ResetCap
    \/ Pause
    \/ Settle
    \/ ReconcileFailed
    \/ GetQueryStats
    \/ Return

SpecOrder == InitOrder /\ [][NextOrder]_vars

(***************************************************************************)
(* The limits specification: a connected engine with two definitions of    *)
(* one run, and the wide choice of memory limits.                          *)
(***************************************************************************)
InitLimits ==
    InitConnected(<<QueryBenchmark("q1", "SELECT 1", "", 1),
                    QueryBenchmark("q2", "SELECT 1", "", 1)>>)

RunAllBenchmarksLimits == RunAllBenchmarksWith(DataLimitMaps, SkipLists)

NextLimits ==
    \/ RunAllBenchmarksLimits
    \/ Setup
    \/ BeginRun
    \/ Submit
    \/ ResetCap
    \/ Pause
    \/ Settle
    \/ ReconcileFailed
    \/ GetQueryStats
    \/ Return

SpecLimits == InitLimits /\ [][NextLimits]_vars

(***************************************************************************)
(* Properties.                                                             *)
(***************************************************************************)
BatchOps == {"run_all_benchmarks", "_run_benchmark_queries", "_run_benchmark_query"}

\* run_all_benchmarks has returned its report.
Reported ==
    /\ pc = "done"
    /\ ret.op = "run_all_benchmarks"
    /\ ret.outcome = "report"

\* The registry entries a skip-list leaves in the batch.
NotSkipped == {i \in DOMAIN benchmarks : benchmarks[i].name \notin skip_benchmarks}

\* No other registry entry carries the name of entry i.
UniqueName(i) == \A j \in DOMAIN benchmarks : benchmarks[j].name = benchmarks[i].name => j = i

\* The Phase-1 records of run r of the benchmark called name.
RecordsOf(name, r) ==
    {k \in DOMAIN query_execution_data :
        /\ query_execution_data[k].benchmark_name = name
        /\ query_execution_data[k].run = r}

\* Record k is the failure record of a run whose client.query raised.
SubmissionRaised(k) ==
    LET rec == query_execution_data[k]
    IN  /\ HasError(rec)
        /\ \E s \in DOMAIN submissions :
              submissions[s].name = rec.benchmark_name /\ submissions[s].run = rec.run
        /\ RecordsOf(rec.benchmark_name, rec.run) = {k}

\* C1: after run_all_benchmarks returns, every definition that was not skipped
\* (and whose name no other entry carries) holds exactly run_count results.
C1_ExactlyRunCountResults ==
    Reported =>
        \A i \in NotSkipped :
            UniqueName(i) => Len(benchmarks[i].results) = benchmarks[i].run_count

\* C2: every query of a definition with a memory cap is submitted with
\* max_memory_usage set to the cap, and when the run is over (the pause before
\* the next run) the setting is back at its default, query failed or not.
C2_CapSetAndResetEveryRun ==
    /\ \A s \in DOMAIN submissions :
          Truthy(memory_limits[submissions[s].name]) =>
              submissions[s].max_memory_usage = CapBytes(memory_limits[submissions[s].name])
    /\ (pc = "pause" /\ Truthy(MemoryLimit)) => session_memory = DefaultMemory

\* C3: no failure of a statement of a batch escapes as an exception: every
\* batch that ends has returned to its caller.
C3_NoFailureEscapes ==
    (pc = "done" /\ ret.op \in BatchOps) => ret.outcome # "exception"

\* C4: a run whose submission raised is recorded without a query identifier,
\* no query-log lookup is issued for it, and its result is the failure result
\* of its Phase-1 record: the record's error and time, zero statistics, no
\* warning.
C4_FailedRunNeverLookedUp ==
    \A k \in DOMAIN query_execution_data :
        SubmissionRaised(k) =>
            /\ query_execution_data[k].query_id = NoQueryId
            /\ k \notin looked_up
            /\ \A j \in DOMAIN results :
                  origin[j].rec = k =>
                      /\ origin[j].kind = "failed"
                      /\ "error" \in DOMAIN results[j].additional_metrics
                      /\ results[j].additional_metrics.error = query_execution_data[k].error
                      /\ results[j].execution_time = query_execution_data[k].execution_time
                      /\ results[j].memory_usage = 0
                      /\ results[j].rows_read = 0
                      /\ results[j].bytes_read = 0
                      /\ results[j].rows_returned = 0
                      /\ "warning" \notin DOMAIN results[j].additional_metrics

\* C4 witness: the batch has ended with the result of a run whose submission raised.
C4_Witness ==
    /\ pc = "done"
    /\ \E k \in DOMAIN query_execution_data :
          /\ SubmissionRaised(k)
          /\ \E j \in DOMAIN results : origin[j].rec = k

\* The result at j is UNRECONCILED: zero statistics and the warning.
Unreconciled(j) ==
    /\ results[j].memory_usage = 0
    /\ results[j].rows_read = 0
    /\ results[j].bytes_read = 0
    /\ results[j].additional_metrics.written_rows = 0
    /\ results[j].additional_metrics.written_bytes = 0
    /\ results[j].additional_metrics.result_bytes = 0
    /\ "warning" \in DOMAIN results[j].additional_metrics
    /\ results[j].additional_metrics.warning = "Query stats not available"

\* A step of Phase 2 that ends the reconciliation of a record.
RecordDone == Len(origin') = Len(origin) + 1

\* C5: _get_query_stats makes at most max_attempts attempts for a record (the
\* attempt index stays below max_attempts, every step of Phase 2 either moves
\* to the next attempt or ends the record, and a record ends exhausted only in
\* attempt max_attempts), the result of an exhausted record is UNRECONCILED,
\* and the reconciliation always ends: Phase 2 leads to the end of the batch.
C5_BoundedReconciliation ==
    /\ [](attempt < max_attempts)
    /\ [](\A j \in DOMAIN results : origin[j].kind = "exhausted" => Unreconciled(j))
    /\ [][(pc = "reconcile" /\ pc' = "reconcile") =>
             \/ ~RecordDone /\ ri' = ri /\ attempt' = attempt + 1
             \/ RecordDone /\ ri' = ri + 1 /\ attempt' = 0]_vars
    /\ [][(RecordDone /\ origin'[Len(origin')].kind = "exhausted") =>
             attempt = max_attempts - 1]_vars
    /\ ((pc = "reconcile") ~> (pc = "done"))

\* C5 witness: a record was exhausted and the batch has ended.
C5_Witness ==
    /\ pc = "done"
    /\ \E j \in DOMAIN results : origin[j].kind = "exhausted"

\* C6: the result of a run reconciled from an errored record carries the
\* record's exception text and exception code.
C6_ErroredResultCarriesException ==
    \A j \in DOMAIN results :
        origin[j].kind = "errored" =>
            /\ "exception" \in DOMAIN results[j].additional_metrics
            /\ "exception_code" \in DOMAIN results[j].additional_metrics

\* C7: while connected is false, a dependent operation rejects with the
\* not-connected outcome and issues no statement.
C7_NotConnectedRejects ==
    (~connected /\ ret.op \in BatchOps \cup {"benchmark_table_info"}) =>
        /\ ret.outcome = "not_connected"
        /\ ~ret.issued

\* C8: in the result of a run reconciled from a finished record, a statistic
\* that is NULL in the record is 0, and a NULL result_rows gives the row count
\* of the run's own Phase-1 record.
C8_NullStatsCoerced ==
    \A j \in DOMAIN results :
        origin[j].kind = "finished" =>
            LET row == origin[j].row
                r   == results[j]
                rec == query_execution_data[origin[j].rec]
            IN  /\ row.memory_usage = Null => r.memory_usage = 0
                /\ row.read_rows = Null => r.rows_read = 0
                /\ row.read_bytes = Null => r.bytes_read = 0
                /\ row.written_rows = Null => r.additional_metrics.written_rows = 0
                /\ row.written_bytes = Null => r.additional_metrics.written_bytes = 0
                /\ row.result_bytes = Null => r.additional_metrics.result_bytes = 0
                /\ row.result_rows = Null => r.rows_returned = rec.rows_returned

\* C8 witness: a finished record with every column NULL, for a query that
\* returned rows.
C8_Witness ==
    \E j \in DOMAIN results :
        /\ origin[j].kind = "finished"
        /\ origin[j].row = LogRow(Null, Null, Null, Null, Null, Null, Null)
        /\ query_execution_data[origin[j].rec].rows_returned = 7

\* C9: when run_all_benchmarks returns, the number of queries submitted is the
\* sum of run_count over the definitions that were not skipped, and no query
\* of a skipped definition was submitted.
C9_SubmissionsAreTheUnskippedRuns ==
    Reported =>
        /\ Len(submissions) = SumSeq([i \in DOMAIN benchmarks |->
                                        IF i \in NotSkipped
                                        THEN benchmarks[i].run_count ELSE 0])
        /\ \A s \in DOMAIN submissions : submissions[s].name \notin skip_benchmarks

\* The scenario of C10: the registry is one definition q1 of two runs, it was
\* not skipped, nothing went wrong (no statement raised, every finished record
\* was found by the first lookup) and every record has memory_usage 100,
\* read_rows 10, read_bytes 1000.
C10_Scenario ==
    /\ Reported
    /\ Len(benchmarks) = 1
    /\ benchmarks[1].name = "q1"
    /\ benchmarks[1].run_count = 2
    /\ "q1" \notin skip_benchmarks
    /\ faults = 0
    /\ \A j \in DOMAIN origin :
          /\ origin[j].kind = "finished"
          /\ origin[j].row.memory_usage = 100
          /\ origin[j].row.read_rows = 10
          /\ origin[j].row.read_bytes = 1000

\* C10: in that scenario the summary entry of q1 has avg_memory_usage 100 and
\* runs 2.
C10_EndToEnd ==
    C10_Scenario =>
        /\ ret.value.benchmark_summary[1].name = "q1"
        /\ ret.value.benchmark_summary[1].avg_memory_usage = <<100, 1>>
        /\ ret.value.benchmark_summary[1].runs = 2

\* C10 witness: the scenario, with both runs reconciled.
C10_Witness == C10_Scenario /\ Len(origin) = 2

\* The standard deviations of a summary entry, with the result field of each.
StdDevOf ==
    [std_dev_time |-> "execution_time", std_dev_memory |-> "memory_usage",
     std_dev_rows_read |-> "rows_read", std_dev_bytes_read |-> "bytes_read"]

\* C11: in the report, the four standard deviations of a definition with one
\* result or none are exactly 0, they are 0 for results that all have the same
\* value, and computing them never raises StatisticsError.
C11_SingleResultDeviationZero ==
    Reported =>
        \A i \in DOMAIN benchmarks :
            LET entry == ret.value.benchmark_summary[i]
                rs    == benchmarks[i].results
            IN  \A f \in DOMAIN StdDevOf :
                    /\ entry[f] # StatisticsError
                    /\ Len(rs) <= 1 => entry[f] = Zero
                    /\ (\A k, l \in DOMAIN rs : rs[k][StdDevOf[f]] = rs[l][StdDevOf[f]])
                          => entry[f] = Zero

\* C11 witness: the report has a definition with a single result and one
\* with none.
C11_Witness ==
    /\ Reported
    /\ \E i \in DOMAIN benchmarks : Len(benchmarks[i].results) = 1
    /\ \E i \in DOMAIN benchmarks : Len(benchmarks[i].results) = 0

\* The results of the batch that carry no error.
Succeeded == {j \in DOMAIN results : "error" \notin DOMAIN results[j].additional_metrics}

\* C12: in the report of a definition with successful and failed runs, the
\* result of every run whose submission raised has 0 in each aggregated
\* statistic (execution time, memory usage, rows read, bytes read, written
\* rows, written bytes, result bytes), and the summary's runs counts every
\* result of the definition.
C12_FailedRunsContributeZero ==
    Reported =>
        /\ \A j \in DOMAIN results :
              ( /\ SubmissionRaised(origin[j].rec)
                /\ \E l \in Succeeded : results[l].query_name = results[j].query_name )
              => /\ results[j].execution_time = 0
                 /\ results[j].memory_usage = 0
                 /\ results[j].rows_read = 0
                 /\ results[j].bytes_read = 0
                 /\ DictGet(results[j].additional_metrics, "written_rows", 0) = 0
                 /\ DictGet(results[j].additional_metrics, "written_bytes", 0) = 0
                 /\ DictGet(results[j].additional_metrics, "result_bytes", 0) = 0
        /\ \A i \in DOMAIN benchmarks :
              UniqueName(i) =>
                  ret.value.benchmark_summary[i].runs =
                      Cardinality({j \in DOMAIN results :
                                      results[j].query_name = benchmarks[i].name})

\* C13: every result of a run classified MEMORY_LIMIT_EXCEEDED carries the
\* extracted details (possibly none) and the fixed optimization hints, whether
\* or not a detail could be extracted from the message.
C13_MemoryLimitResultHasHints ==
    \A j \in DOMAIN results :
        ( /\ "error" \in DOMAIN results[j].additional_metrics
          /\ results[j].additional_metrics.error = "MEMORY_LIMIT_EXCEEDED" )
        => /\ "error_details" \in DOMAIN results[j].additional_metrics
           /\ results[j].additional_metrics.error_details =
                  MemoryDetails(results[j].additional_metrics.error_message)
           /\ "optimization_hints" \in DOMAIN results[j].additional_metrics
           /\ results[j].additional_metrics.optimization_hints = OptimizationHints

(***************************************************************************)
(* _parse_memory_limit on its own: the limit string of q1 is any string of *)
(* LimitStrings, and the call's outcome is in ret.                         *)
(***************************************************************************)
InitParse ==
    /\ client = FALSE
    /\ connected = FALSE
    /\ session_memory = DefaultMemory
    /\ benchmarks = <<>>
    /\ invocations = <<>>
    /\ pc = "idle"
    /\ caller = "none"
    /\ to_run = <<>>
    /\ \E s \in LimitStrings :
          memory_limits = [n \in Names |-> IF n = "q1" THEN StrLimit(s) ELSE NoLimit]
    /\ skip_benchmarks = {}
    /\ setup_issued = 0
    /\ bi = 0
    /\ run = 0
    /\ start_time = Unbound
    /\ clock = 0
    /\ next_query_id = 1
    /\ query_execution_data = <<>>
    /\ submissions = <<>>
    /\ ri = 0
    /\ attempt = 0
    /\ results = <<>>
    /\ origin = <<>>
    /\ looked_up = {}
    /\ last_lookup = "none"
    /\ lookups_issued = <<>>
    /\ waited = 0
    /\ settle_waits = 0
    /\ faults = 0
    /\ ret = Outcome("none", "none", FALSE, NoValue)

ParseMemoryLimitCall ==
    /\ pc = "idle"
    /\ ret.op = "none"
    /\ LET r == ParseMemoryLimit(memory_limits["q1"].s)
       IN  ret' = Outcome("_parse_memory_limit",
                          IF r.raised THEN r.exception ELSE "returned",
                          FALSE, r.value)
    /\ UNCHANGED <<session_vars, registry_vars, pc, args_vars, phase1_vars,
                   phase2_vars, budget_vars>>

NextParse == ParseMemoryLimitCall

SpecParse == InitParse /\ [][NextParse]_vars

\* The string is decimal digits followed by nothing, a unit letter, or a unit
\* letter and B.
DigitsAndUnit(s) ==
    LET rest == Drop(s, PrefixLen(s, DecimalChars))
    IN  /\ PrefixLen(s, DecimalChars) > 0
        /\ \/ rest = <<>>
           \/ Len(rest) = 1 /\ rest[1] \in UnitChars
           \/ Len(rest) = 2 /\ rest[1] \in UnitChars /\ rest[2] \in ByteChars

\* n * 1024^k for such a string.
DigitsTimesUnit(s) ==
    LET n    == PrefixLen(s, DecimalChars)
        k    == IF Len(s) > n THEN UnitPower(s[n + 1]) ELSE 0
    IN  Normalize(ToBytes(DecimalValue(Take(s, n))) \o [i \in 1..k |-> 0])

\* The string is a number (with surrounding or inner whitespace, a decimal
\* part, B alone as the unit) in the widest reading of the form.
Numeric(s) ==
    LET t == Strip(s)
    IN  \/ t # <<>> /\ \A i \in DOMAIN t : t[i] \in DecimalChars
        \/ Match(t).matched

\* C14: _parse_memory_limit never raises; for decimal digits n followed by an
\* optional unit it returns n * 1024^k (k = 0 for no unit, 1 for K/KB, 2 for
\* M/MB, 3 for G/GB, 4 for T/TB, in either case); for a string that is not a
\* number with an optional unit it returns 0.
C14_ParseMemoryLimit ==
    ret.op = "_parse_memory_limit" =>
        LET s == memory_limits["q1"].s
        IN  /\ ret.outcome = "returned"
            /\ DigitsAndUnit(s) => ret.value = DigitsTimesUnit(s)
            /\ ~Numeric(s) => ret.value = <<0>>

\* The same without the strings that str.isdigit() accepts and int() rejects.
ParseRightExceptSuperscripts ==
    ret.op = "_parse_memory_limit" =>
        LET s == memory_limits["q1"].s
        IN  (\A i \in DOMAIN s : s[i] \notin SuperscriptChars) =>
                /\ ret.outcome = "returned"
                /\ DigitsAndUnit(s) => ret.value = DigitsTimesUnit(s)
                /\ ~Numeric(s) => ret.value = <<0>>

\* The examples of the docstring.
ParseExamples ==
    ret.op = "_parse_memory_limit" =>
        LET s == memory_limits["q1"].s
        IN  /\ s = <<"1", "0", "2", "4">> => ret.value = <<1, 0>>
            /\ s = <<"1", "K", "B">> => ret.value = <<1, 0>>
            /\ s = <<"5", "M", "B">> => ret.value = <<5, 0, 0>>
            /\ s = <<"9", "G", "B">> => ret.value = <<9, 0, 0, 0>>
            /\ s = <<"a", "b", "c">> => ret.value = <<0>>
            /\ s = <<"1", ".", "5", "K">> => ret.value = <<1, 512>>
            /\ s = <<"0", ".", "9", "k">> => ret.value = <<921>>

\* The limit is a string that is not a number of bytes.
Unparseable(limit) == limit.kind = "str" /\ limit.s # <<>> /\ ~Numeric(limit.s)

\* Every run of definition i of the batch was submitted with the session's
\* max_memory_usage at its default, and none was recorded as failed.
SubmittedUncapped(i) ==
    \A r \in 0..(to_run[i].run_count - 1) :
        /\ \E s \in DOMAIN submissions :
              /\ submissions[s].name = to_run[i].name
              /\ submissions[s].run = r
              /\ submissions[s].max_memory_usage = DefaultMemory
        /\ \A k \in RecordsOf(to_run[i].name, r) : ~HasError(query_execution_data[k])

\* C15: when nothing else goes wrong in a batch (no statement raises), the
\* batch returns, and every run of a definition whose limit cannot be parsed
\* was submitted with max_memory_usage at its default 0 and was not recorded
\* as failed.
C15_UnparseableLimitIsNoLimit ==
    (pc = "done" /\ ret.op = "run_all_benchmarks" /\ faults = 0) =>
        /\ ret.outcome # "exception"
        /\ \A i \in DOMAIN to_run :
              Unparseable(memory_limits[to_run[i].name]) => SubmittedUncapped(i)

\* The same for the limits that _parse_memory_limit does not raise on.
UnparseableRightExceptSuperscripts ==
    ( /\ pc = "done" /\ ret.op = "run_all_benchmarks" /\ faults = 0
      /\ \A n \in Names : ~CapRaises(memory_limits[n]) ) =>
        /\ ret.outcome # "exception"
        /\ \A i \in DOMAIN to_run :
              Unparseable(memory_limits[to_run[i].name]) => SubmittedUncapped(i)

\* C16: for every summary entry of the report, the Result Rows column of the
\* printed table shows the mean of rows_returned over the definition's
\* results.
C16_SummaryHasMeanResultRows ==
    Reported =>
        \A i \in DOMAIN benchmarks :
            LET entry == ret.value.benchmark_summary[i]
                mean  == MeanOrZero(Column(benchmarks[i].results, "rows_returned"))
            IN  ResultRowsColumn(entry) = mean

\* C17: after any sequence of add_benchmark, add_benchmark_from_dict and
\* add_benchmarks_from_list calls, no two query definitions of the registry
\* have the same name.
C17_RegistryNamesUnique ==
    \A i \in DOMAIN benchmarks : UniqueName(i)

\* A step of _get_query_stats that issues a query-log lookup for the record at ri.
LookupStep == pc = "reconcile" /\ ri \in looked_up'

\* C18: an exception raised by a query-log lookup of reconciliation (the
\* finished lookup, the errored lookup, or reading the returned row) stays
\* inside _get_query_stats: the batch goes on reconciling with its outcome
\* untouched, the exception costs exactly one attempt, and the run's
\* reconciliation goes on with the next attempt unless that was the last of
\* the max_attempts attempts.
C18_RaisedLookupCostsOneAttempt ==
    [][ (LookupStep /\ last_lookup' \in RaisedLookups) =>
            /\ pc' = "reconcile"
            /\ ret' = ret
            /\ IF attempt < max_attempts - 1
               THEN /\ attempt' = attempt + 1
                    /\ ri' = ri
                    /\ results' = results
               ELSE /\ ri' = ri + 1
                    /\ origin'[ri].kind = "exhausted" ]_vars

\* C18 witness: a lookup raised while reading the returned row on a later
\* attempt, and the same run is still being reconciled.
C18_Witness ==
    /\ pc = "reconcile"
    /\ ri \in looked_up
    /\ last_lookup = "row_raised"
    /\ attempt >= 2
    /\ Len(results) = ri - 1

\* The positions of a batch before its settle delay has been waited.
PhaseOne == {"setup", "run", "submit", "reset", "pause", "settle"}

\* A batch that got past the client check has ended, by return or by exception.
BatchEnded == pc = "done" /\ ret.op \in BatchOps /\ ret.issued

\* C19: in every batch Phase 2 starts only after Phase 1 has ended: while the
\* batch is submitting or has not yet waited the settle delay no query-log
\* lookup has been issued, a lookup is issued only once the settle delay has
\* been waited, and the settle delay is waited exactly once per batch.
C19_PhaseTwoAfterPhaseOne ==
    /\ pc \in PhaseOne => looked_up = {} /\ settle_waits = 0
    /\ looked_up # {} => settle_waits = 1
    /\ BatchEnded => settle_waits = 1

\* The part of C19 that holds: the order of the two phases, and one settle
\* delay in every batch that returns.
PhasesInOrder ==
    /\ pc \in PhaseOne => looked_up = {} /\ settle_waits = 0
    /\ looked_up # {} => settle_waits = 1
    /\ (BatchEnded /\ ret.outcome # "exception") => settle_waits = 1

\* C20: in every batch the two cache-clearing statements and the two
\* log-instrumentation settings are each issued exactly once: all four have
\* been issued before the first benchmark query is submitted, and all four
\* have been issued when the batch ends.
C20_SetupOncePerBatch ==
    /\ submissions # <<>> => setup_issued = 4
    /\ pc \in {"run", "submit", "reset", "pause", "settle", "reconcile"} =>
          setup_issued = 4
    /\ BatchEnded => setup_issued = 4

\* The part of C20 that holds: the four statements come before every
\* submission, and no batch issues one of them twice.
SetupBeforeSubmissions ==
    /\ submissions # <<>> => setup_issued = 4
    /\ pc \in {"run", "submit", "reset", "pause", "settle", "reconcile"} =>
          setup_issued = 4
    /\ (BatchEnded /\ ret.outcome # "exception") => setup_issued = 4
    /\ setup_issued \in 0..4

\* The (name, run) pairs of a sequence of submissions or Phase-1 records.
SubmittedRuns == [s \in DOMAIN submissions |->
                    <<submissions[s].name, submissions[s].run>>]
RecordedRuns == [k \in DOMAIN query_execution_data |->
                    <<query_execution_data[k].benchmark_name,
                      query_execution_data[k].run>>]

\* xs can be obtained from ys by leaving elements out.
RECURSIVE IsSubsequence(_, _)
IsSubsequence(xs, ys) ==
    IF xs = <<>> THEN TRUE
    ELSE IF ys = <<>> THEN FALSE
    ELSE IF Head(xs) = Head(ys) THEN IsSubsequence(Tail(xs), Tail(ys))
    ELSE IsSubsequence(xs, Tail(ys))

\* _run_benchmark_queries has returned its list of results.
ReturnedResults ==
    pc = "done" /\ ret.op = "_run_benchmark_queries" /\ ret.outcome = "results"

\* C21: submissions happen in the order of the batch's definitions, the runs
\* of a definition consecutively and by ascending run index; the Phase-1
\* records keep the order of the submissions, Phase 2 takes the records in
\* that order, and the list returned by _run_benchmark_queries is the list of
\* their results in that order.
C21_ResultsInSubmissionOrder ==
    /\ \A s \in DOMAIN submissions :
          /\ submissions[s].index \in DOMAIN to_run
          /\ submissions[s].name = to_run[submissions[s].index].name
          /\ submissions[s].run \in 0..(to_run[submissions[s].index].run_count - 1)
    /\ \A s, t \in DOMAIN submissions :
          s < t =>
              \/ submissions[s].index < submissions[t].index
              \/ /\ submissions[s].index = submissions[t].index
                 /\ submissions[s].run < submissions[t].run
    /\ IsSubsequence(SubmittedRuns, RecordedRuns)
    /\ \A j \in DOMAIN results :
          /\ origin[j].rec = j
          /\ results[j].query_name = query_execution_data[j].benchmark_name
          /\ results[j].execution_time = query_execution_data[j].execution_time
    /\ ReturnedResults =>
          /\ ret.value = results
          /\ Len(results) = Len(query_execution_data)

\* C21 witness: a batch of two definitions of different names has returned
\* the results of its three submitted runs.
C21_Witness ==
    /\ ReturnedResults
    /\ Len(submissions) = 3
    /\ Len(ret.value) = 3
    /\ ret.value[1].query_name # ret.value[3].query_name

\* C22: in _get_query_stats the wait after the k-th unsuccessful attempt
\* (k = attempt + 1 = 1..14) is k units of 0.5 s, whether the attempt found no
\* record or raised, so each wait is longer than the one before it; no wait
\* follows the 15th attempt or an attempt that found a record.
C22_EscalatingBackoff ==
    [][ LookupStep =>
            LET k == attempt + 1
                unsuccessful == last_lookup' \in DataMisses
            IN  /\ (unsuccessful /\ k <= max_attempts - 1) => waited' = k
                /\ (~unsuccessful \/ k = max_attempts) => waited' = 0
                /\ attempt > 0 =>
                      /\ waited = k - 1
                      /\ waited' # 0 => waited' > waited ]_vars

\* C22 witness: the 14th attempt raised and was followed by the longest wait.
C22_Witness ==
    /\ pc = "reconcile"
    /\ attempt = max_attempts - 1
    /\ last_lookup \in RaisedLookups
    /\ waited = max_attempts - 1

StartTakenInThisRun ==
    /\ submissions # <<>>
    /\ submissions[Len(submissions)].index = bi
    /\ submissions[Len(submissions)].run = run

\* C24: the execution time recorded for a run, successful or failed, is the
\* time elapsed since a start timestamp taken during that same run just
\* before its query was submitted; a failed run never records a time measured
\* from the start timestamp of an earlier run.
C24_TimeMeasuredFromOwnStart ==
    (pc \in {"reset", "pause"}) =>
        LET rec == query_execution_data[Len(query_execution_data)]
        IN  /\ StartTakenInThisRun
            /\ rec.execution_time = clock - start_time

\* The part of C24 that holds: the time of every run whose query was
\* submitted is measured from that run's own start.
SubmittedRunsTimedFromOwnStart ==
    (pc \in {"reset", "pause"} /\ StartTakenInThisRun) =>
        query_execution_data[Len(query_execution_data)].execution_time =
            clock - start_time

\* The terminal states of a result.
Failed(result) ==
    /\ "error" \in DOMAIN result.additional_metrics
    /\ "warning" \notin DOMAIN result.additional_metrics
UnreconciledState(result) ==
    /\ "warning" \in DOMAIN result.additional_metrics
    /\ "error" \notin DOMAIN result.additional_metrics
ReconciledState(result) ==
    /\ "warning" \notin DOMAIN result.additional_metrics
    /\ "error" \notin DOMAIN result.additional_metrics

\* The part of C25 that holds, record by record: every result is in one
\* terminal state, and it is FAILED exactly when its Phase-1 record is a
\* failure record, which has no query identifier.
OneTerminalStatePerRecord ==
    \A j \in DOMAIN results :
        LET rec == query_execution_data[origin[j].rec]
        IN  /\ \/ Failed(results[j])
               \/ UnreconciledState(results[j])
               \/ ReconciledState(results[j])
            /\ Failed(results[j]) <=> HasError(rec)
            /\ Failed(results[j]) => rec.query_id = NoQueryId

\* No two definitions of the batch have the same name.
BatchNamesUnique ==
    \A i, j \in DOMAIN to_run : to_run[i].name = to_run[j].name => i = j

\* C25: every result of a batch is in exactly one terminal state, FAILED (an
\* error, no warning, no query identifier), UNRECONCILED (a warning, no error)
\* or RECONCILED (neither); a run recorded as LOG_PENDING in Phase 1 has no
\* FAILED result, and a run recorded as FAILED has no RECONCILED or
\* UNRECONCILED result.
C25_OneTerminalStatePerRun ==
    /\ OneTerminalStatePerRecord
    /\ BatchNamesUnique =>
          \A j, k \in DOMAIN results :
              LET rec == query_execution_data[origin[k].rec]
              IN  ( /\ rec.benchmark_name = results[j].query_name
                    /\ rec.run = query_execution_data[origin[j].rec].run
                    /\ ~HasError(rec) )
                  => ~Failed(results[j])

\* C26: the result of a run reconciled from a finished log record whose
\* result_rows is not NULL has that value as rows_returned, also when the
\* value is 0; the row count returned in Phase 1 is used only for NULL.
C26_LogResultRowsWin ==
    \A j \in DOMAIN results :
        origin[j].kind = "finished" =>
            LET row == origin[j].row
                rec == query_execution_data[origin[j].rec]
            IN  results[j].rows_returned =
                    IF row.result_rows # Null THEN row.result_rows
                                              ELSE rec.rows_returned

\* The part of C26 that holds: a result_rows other than 0 and NULL is the
\* result's rows_returned.
NonZeroLogResultRowsWin ==
    \A j \in DOMAIN results :
        (origin[j].kind = "finished" /\ origin[j].row.result_rows \notin {Null, 0}) =>
            results[j].rows_returned = origin[j].row.result_rows

\* Every query of a definition without an entry in the memory-limits map was
\* submitted with the session's max_memory_usage at its default.
UncappedSubmittedAtDefault ==
    \A s \in DOMAIN submissions :
        memory_limits[submissions[s].name] = NoLimit =>
            submissions[s].max_memory_usage = DefaultMemory

\* C27: memory caps do not leak between definitions: whenever a query of a
\* definition with no entry in the memory-limits map is submitted, the
\* session's max_memory_usage is at its default 0, whatever happened in the
\* runs before it.
C27_CapsDoNotLeak == UncappedSubmittedAtDefault

\* The part of C27 that holds: no cap leaks as long as no statement raised.
CapsDoNotLeakWithoutFailure == faults = 0 => UncappedSubmittedAtDefault

\* The number of Phase-1 records of the definitions that come before registry
\* entry i in a batch in which every run made one record.
RecordsBefore(i) ==
    SumSeq([k \in DOMAIN benchmarks |->
               IF k \in NotSkipped /\ k < i THEN benchmarks[k].run_count ELSE 0])

\* The results of the runs of registry entry i in such a batch.
OwnResults(i) ==
    SubSeq(results, RecordsBefore(i) + 1, RecordsBefore(i) + benchmarks[i].run_count)

\* C28: run_all_benchmarks attributes every result to the definition whose
\* run produced it: after a batch in which no statement raised, the results
\* list of every definition that was run is the list of the results of its own
\* runs, also when two registry entries carry the same name.
C28_ResultsGoToTheirDefinition ==
    (Reported /\ faults = 0) =>
        \A i \in NotSkipped : benchmarks[i].results = OwnResults(i)

\* The part of C28 that holds: the attribution is right for every definition
\* whose name no other registry entry carries.
UniquelyNamedGetTheirResults ==
    (Reported /\ faults = 0) =>
        \A i \in NotSkipped : UniqueName(i) => benchmarks[i].results = OwnResults(i)

\* Every run_all_benchmarks call that has run a batch so far had no skip-list.
NeverSkipped == \A s \in DOMAIN invocations : invocations[s] = {}

\* xs is an initial part of ys.
IsPrefix(xs, ys) == Len(xs) <= Len(ys) /\ SubSeq(ys, 1, Len(xs)) = xs

\* The results lists of the registry only grow.
ResultsOnlyGrow ==
    [][ /\ Len(benchmarks') >= Len(benchmarks)
        /\ \A i \in DOMAIN benchmarks :
              IsPrefix(benchmarks[i].results, benchmarks'[i].results) ]_vars

\* C29: results left by earlier invocations are kept: after k invocations in
\* which no statement raised and no skip-list was given, every definition
\* holds k * run_count results, and the report's runs and mean are taken over
\* all of them.
C29_ResultsAccumulate ==
    (Reported /\ faults = 0 /\ NeverSkipped) =>
        \A i \in DOMAIN benchmarks :
            LET entry == ret.value.benchmark_summary[i]
            IN  /\ Len(benchmarks[i].results) =
                      Len(invocations) * benchmarks[i].run_count
                /\ entry.runs = Len(invocations) * benchmarks[i].run_count
                /\ entry.avg_execution_time =
                      MeanOrZero(Column(benchmarks[i].results, "execution_time"))

\* The part of C29 that holds: the count for every definition whose name no
\* other registry entry carries.
UniquelyNamedAccumulate ==
    (Reported /\ faults = 0 /\ NeverSkipped) =>
        \A i \in DOMAIN benchmarks :
            UniqueName(i) =>
                /\ Len(benchmarks[i].results) =
                      Len(invocations) * benchmarks[i].run_count
                /\ ret.value.benchmark_summary[i].runs =
                      Len(invocations) * benchmarks[i].run_count

\* The definition part of a registry entry: everything but its results.
Definition(b) ==
    [name |-> b.name, query |-> b.query, description |-> b.description,
     run_count |-> b.run_count]

\* No step of a batch changes the registry's definitions or the results of a
\* definition that the batch's skip-list names.
SkippedUntouched ==
    [][ (pc # "idle" /\ caller = "run_all_benchmarks") =>
            /\ Len(benchmarks') = Len(benchmarks)
            /\ \A i \in DOMAIN benchmarks :
                  /\ Definition(benchmarks'[i]) = Definition(benchmarks[i])
                  /\ benchmarks[i].name \in skip_benchmarks =>
                        benchmarks'[i].results = benchmarks[i].results ]_vars

\* Every invocation so far skipped registry entry i.
AlwaysSkipped(i) ==
    \A s \in DOMAIN invocations : benchmarks[i].name \in invocations[s]

\* The summary entry of a definition without results.
EmptySummary(entry) ==
    /\ entry.runs = 0
    /\ entry.avg_execution_time = Zero /\ entry.std_dev_time = Zero
    /\ entry.avg_memory_usage = Zero /\ entry.std_dev_memory = Zero
    /\ entry.avg_rows_read = Zero /\ entry.std_dev_rows_read = Zero
    /\ entry.avg_bytes_read = Zero /\ entry.std_dev_bytes_read = Zero
    /\ entry.avg_written_rows = Zero /\ entry.avg_written_bytes = Zero
    /\ entry.avg_result_bytes = Zero

\* The report has one summary entry per registry definition, in registry
\* order, and a definition that was skipped every time is reported empty.
SummaryPerDefinition ==
    Reported =>
        /\ Len(ret.value.benchmark_summary) = Len(benchmarks)
        /\ \A i \in DOMAIN benchmarks :
              /\ ret.value.benchmark_summary[i].name = benchmarks[i].name
              /\ ret.value.benchmark_summary[i].runs = Len(benchmarks[i].results)
              /\ AlwaysSkipped(i) =>
                    /\ benchmarks[i].results = <<>>
                    /\ EmptySummary(ret.value.benchmark_summary[i])

\* C30: run_all_benchmarks with a skip-list leaves the skipped definitions'
\* results as they were, and its report has one summary entry and one
\* detailed_results key per registry definition, in registry order: as many
\* keys as definitions, each holding its definition's results; a definition
\* skipped with no earlier results has runs = 0 and every average and
\* standard deviation 0.
C30_ReportCoversRegistry ==
    /\ SummaryPerDefinition
    /\ Reported =>
          /\ Cardinality(DOMAIN ret.value.detailed_results) = Len(benchmarks)
          /\ \A i \in DOMAIN benchmarks :
                /\ benchmarks[i].name \in DOMAIN ret.value.detailed_results
                /\ ret.value.detailed_results[benchmarks[i].name] =
                      benchmarks[i].results

\* The part of C30 that holds: the detailed_results key of every definition
\* whose name no other registry entry carries.
UniquelyNamedHaveTheirKey ==
    Reported =>
        \A i \in DOMAIN benchmarks :
            UniqueName(i) =>
                /\ benchmarks[i].name \in DOMAIN ret.value.detailed_results
                /\ ret.value.detailed_results[benchmarks[i].name] =
                      benchmarks[i].results

\* A report of a batch that skipped a definition holding no results.
SkippedReported ==
    /\ Reported
    /\ \E i \in DOMAIN benchmarks :
          /\ UniqueName(i)
          /\ AlwaysSkipped(i)
          /\ \E j \in DOMAIN benchmarks : benchmarks[j].results # <<>>

====
